---------------------------- MODULE Spec2Model ----------------------------
(***************************************************************************)
(* Model of src/src/App.js (musicballs): bouncing particles whose          *)
(* collisions trigger sample playback.                                     *)
(*                                                                         *)
(* Lengths (positions, velocities, radii) are fixed-point integers in      *)
(* units of 1/SCALE pixel; JavaScript's doubles are approximated by        *)
(* rounding after every multiplication or division.                        *)
(***************************************************************************)
EXTENDS Integers, Sequences, FiniteSets, TLC

(***************************************************************************)
(* Program constants (App.js lines 11-26).                                 *)
(***************************************************************************)
Nt(n, o) == [name |-> n, octave |-> o]

NOTES ==
  << Nt("Bb", 2), Nt("Bb", 3), Nt("A", 2),  Nt("A", 3),
     Nt("B", 2),  Nt("B", 3),  Nt("Db", 2), Nt("Db", 3),
     Nt("C", 2),  Nt("C", 3),  Nt("Eb", 2), Nt("Eb", 3),
     Nt("D", 2),  Nt("D", 3),  Nt("E", 2),  Nt("E", 3),
     Nt("Gb", 2), Nt("Gb", 3), Nt("F", 2),  Nt("F", 3),
     Nt("Ab", 2), Nt("Ab", 3), Nt("G", 2),  Nt("G", 3) >>

NoteSet == { NOTES[i] : i \in 1..Len(NOTES) }

INITIAL_RADIUS == 150
MIN_RADIUS == 15
MAX_POLYPHONY == 16
\* RADIUS_DECREASE_FACTOR = 0.9 as a fraction
RADIUS_DECREASE_NUM == 9
RADIUS_DECREASE_DEN == 10
\* VELOCITY_INCREASE_FACTOR = 1.02 as a fraction
VELOCITY_INCREASE_NUM == 102
VELOCITY_INCREASE_DEN == 100
\* INITIAL_VELOCITY = 10
INITIAL_VELOCITY == 10
\* MAX_VOLUME = 0.3, in thousandths
MAX_VOLUME_MILLI == 300

\* fixed-point units per pixel
SCALE == 10

(***************************************************************************)
(* Bounds of the model.                                                    *)
(***************************************************************************)
\* AudioBufferSourceNodes created in one behaviour
MaxSources == 18
\* triggers of a note that was triggered before, plus sources whose
\* playback reaches the end of its buffer
MaxRepeats == 2

VARIABLES
  canvas,            \* canvasRef.current: [width, height] in pixels
  audioInitialized,  \* the audioInitialized state of the last render
  loopAudioInitialized, \* the audioInitialized captured by the playNote that
                     \*   the registered animate callback calls
  audioBuffers,      \* audioBuffersRef.current: the notes that have a buffer
  activeSources,     \* activeSourcesRef.current: keys in insertion order,
                     \*   a sequence of [note, src]
  sources,           \* every AudioBufferSourceNode created, by creation order
  particles,         \* the particles state of the last render
  particlesRef,      \* particlesRef.current
  pending,           \* the state updates queued since the last render
  effectsPending,    \* the effects of the last render have not run yet
  frameRequested,    \* the frame callback requested last, whose id is in
                     \*   animationFrameIdRef.current, is pending
  otherFrames,       \* the number of pending frame callbacks with another id
  mounted,           \* App is mounted
  calls,             \* the addParticle calls awaiting initializeAudio
  audioContexts,     \* the number of AudioContexts created
  nextId,            \* history: the identity of the next particle object
  staleTicks,        \* history: the animate calls that updated particles read
                     \*   from a particlesRef.current older than the last update
  lastCall,          \* history: the last call and what it was given
  place              \* the getRandomPosition call in progress: its arguments
                     \*   and locals

audioVars == <<loopAudioInitialized, audioBuffers, activeSources, sources>>
storeVars == <<audioInitialized, particles, particlesRef, pending, effectsPending>>
loadVars == <<calls, audioContexts>>
histVars == <<nextId, staleTicks>>
frameVars == <<frameRequested, otherFrames, mounted>>
appVars == <<canvas, audioVars, storeVars, frameVars, loadVars, histVars, lastCall>>
vars == <<appVars, place>>

(***************************************************************************)
(* activeSourcesRef.current, a JavaScript object with string keys: keys    *)
(* are kept in insertion order, assignment to an existing key keeps the    *)
(* key's position.                                                         *)
(***************************************************************************)
HasKey(obj, note) == \E i \in 1..Len(obj) : obj[i].note = note

KeyIndex(obj, note) == CHOOSE i \in 1..Len(obj) : obj[i].note = note

\* obj[note]
GetKey(obj, note) == obj[KeyIndex(obj, note)].src

\* obj[note] = src
SetKey(obj, note, src) ==
  IF HasKey(obj, note)
  THEN [obj EXCEPT ![KeyIndex(obj, note)].src = src]
  ELSE Append(obj, [note |-> note, src |-> src])

\* delete obj[note]
DeleteKey(obj, note) ==
  IF HasKey(obj, note)
  THEN LET k == KeyIndex(obj, note)
       IN  [i \in 1..(Len(obj) - 1) |-> IF i < k THEN obj[i] ELSE obj[i + 1]]
  ELSE obj

(***************************************************************************)
(* AudioBufferSourceNode.  state: "playing" after start(); "stopped" after *)
(* stop() (its ended event is pending); "finished" when the buffer played  *)
(* to its end (its ended event is pending); "closed" after its onended     *)
(* handler ran.  cut: stop() ended the playback.                           *)
(***************************************************************************)
\* source.stop(): only cuts a source that is still playing
StopSource(srcs, s) ==
  IF srcs[s].state = "playing"
  THEN [srcs EXCEPT ![s].state = "stopped", ![s].cut = TRUE]
  ELSE srcs

\* panValue = (x / canvas.width) * 2 - 1, as the fraction num/den (x in
\* units of 1/SCALE pixel, width in pixels)
PanValue(x, width) == [num |-> 2 * x - width * SCALE, den |-> width * SCALE]

Max(a, b) == IF a >= b THEN a ELSE b
Min(a, b) == IF a <= b THEN a ELSE b

\* Math.max(0.1, Math.min(1, radius / INITIAL_RADIUS)) * MAX_VOLUME, in thousandths
GainValue(radius) ==
  (Max(100, Min(1000, (radius * 1000) \div (INITIAL_RADIUS * SCALE))) * MAX_VOLUME_MILLI) \div 1000

(***************************************************************************)
(* playNote(note, x, radius), on the audio state au = [active, srcs].      *)
(***************************************************************************)
PlayNoteMutNoBufferCheck(initialized, buffers, note) == initialized

\* the guard of playNote (line 113)
CanPlay(initialized, buffers, note) == initialized /\ note \in buffers

PlayNoteOp(au, initialized, buffers, width, note, x, radius) ==
  IF ~CanPlay(initialized, buffers, note) THEN au
  ELSE
    LET \* lines 115-117: stop the previous playback of this note
        s1 == IF HasKey(au.active, note)
              THEN StopSource(au.srcs, GetKey(au.active, note))
              ELSE au.srcs
        \* lines 120-125: limit the number of simultaneous sounds
        full == Len(au.active) >= MAX_POLYPHONY
        s2 == IF full THEN StopSource(s1, au.active[1].src) ELSE s1
        a2 == IF full THEN Tail(au.active) ELSE au.active
        \* lines 127-150
        new == Len(au.srcs) + 1
        s3 == Append(s2, [note |-> note, state |-> "playing", cut |-> FALSE,
                          pan |-> PanValue(x, width), gain |-> GainValue(radius)])
    IN  [active |-> SetKey(a2, note, new), srcs |-> s3]

OnEndedOpMutKeep(au, s) ==
  [active |-> au.active, srcs |-> [au.srcs EXCEPT ![s].state = "closed"]]

\* source.onended (lines 152-154) of source s
OnEndedOp(au, s) ==
  [active |-> DeleteKey(au.active, au.srcs[s].note),
   srcs |-> [au.srcs EXCEPT ![s].state = "closed"]]

Audio == [active |-> activeSources, srcs |-> sources]

Sounding == { s \in 1..Len(sources) : sources[s].state = "playing" }
EndedPending == { s \in 1..Len(sources) : sources[s].state \in {"stopped", "finished"} }
UsedNotes == { sources[s].note : s \in 1..Len(sources) }

(***************************************************************************)
(* Fixed-point arithmetic.                                                 *)
(***************************************************************************)
\* a / b rounded to the nearest integer (b > 0)
RoundDiv(a, b) == (2 * a + b) \div (2 * b)

RECURSIVE SqrtSearch(_, _, _)
SqrtSearch(n, lo, hi) ==
  IF lo >= hi THEN lo
  ELSE LET mid == (lo + hi + 1) \div 2
       IN  IF mid * mid <= n THEN SqrtSearch(n, mid, hi) ELSE SqrtSearch(n, lo, mid - 1)

\* Math.sqrt(n) rounded to the nearest integer
Sqrt(n) ==
  LET s == SqrtSearch(n, 0, 46340)
  IN  IF n - s * s > s THEN s + 1 ELSE s

(***************************************************************************)
(* updateParticle(particle, canvas, particles, time).  A particle is       *)
(* [id, age, x, y, vx, vy, radius, note, vnan, pnan]: id and age are       *)
(* history (which spawn made the particle, how many updateParticle calls   *)
(* it went through), vnan says that vx and vy are NaN, pnan that x and y   *)
(* are NaN (the numeric fields are then 0).  turb = <<turbulenceX,         *)
(* turbulenceY>> is what noise.perlin3 yields for this particle.  The      *)
(* result is [p, collided, collisionX].                                    *)
(***************************************************************************)
ShrinkRadiusMutKeep(radius) == radius

ShrinkRadiusMutTwice(radius) ==
  (((radius * RADIUS_DECREASE_NUM) \div RADIUS_DECREASE_DEN) * RADIUS_DECREASE_NUM)
    \div RADIUS_DECREASE_DEN

\* radius *= RADIUS_DECREASE_FACTOR (line 223)
ShrinkRadius(radius) == (radius * RADIUS_DECREASE_NUM) \div RADIUS_DECREASE_DEN

\* speed * VELOCITY_INCREASE_FACTOR along the direction of v (lines 224-227)
ScaleVelocity(v) == RoundDiv(v * VELOCITY_INCREASE_NUM, VELOCITY_INCREASE_DEN)

WallImpactXMutNextX(nextX, radius, width) == nextX

\* line 177: the impact x of a hit of the left or the right wall
WallImpactX(nextX, radius, width) ==
  IF nextX - radius <= 0 THEN radius ELSE width - radius

\* lines 186-219: the collision of the particle (state a, tentative position
\* nextX, nextY, radius) with otherParticle o
CollideWith(a, o, nextX, nextY, radius) ==
  LET dx == o.x - nextX
      dy == o.y - nextY
      d2 == dx * dx + dy * dy
      minDistance == radius + o.radius
  IN  IF o.pnan \/ ~(d2 < minDistance * minDistance) THEN a
      ELSE IF d2 = 0
      THEN \* nx = ny = 0 / 0: velocity and position become NaN
           [a EXCEPT !.collided = TRUE, !.collisionX = nextX,
                     !.vnan = TRUE, !.vx = 0, !.vy = 0,
                     !.pnan = TRUE, !.x = 0, !.y = 0]
      ELSE
        LET distance == Sqrt(d2)
            nan == a.vnan \/ o.vnan
            \* relativeVelocity . normal
            rvn == IF nan THEN 0
                   ELSE RoundDiv((a.vx - o.vx) * dx + (a.vy - o.vy) * dy, distance)
            \* impulse / radius = 2 rvn / (1/radius + 1/o.radius) / radius
            j == RoundDiv(2 * rvn * o.radius, radius + o.radius)
            overlap == minDistance - distance
        IN  [a EXCEPT !.collided = TRUE, !.collisionX = nextX,
                      !.vnan = nan,
                      !.vx = IF nan THEN 0 ELSE a.vx - RoundDiv(j * dx, distance),
                      !.vy = IF nan THEN 0 ELSE a.vy - RoundDiv(j * dy, distance),
                      !.x = IF a.pnan THEN 0 ELSE a.x - RoundDiv(overlap * dx, 2 * distance),
                      !.y = IF a.pnan THEN 0 ELSE a.y - RoundDiv(overlap * dy, 2 * distance)]

RECURSIVE CollideAll(_, _, _, _, _, _, _)
CollideAll(a, id, others, i, nextX, nextY, radius) ==
  IF i > Len(others) THEN a
  ELSE CollideAll(IF others[i].id = id THEN a
                  ELSE CollideWith(a, others[i], nextX, nextY, radius),
                  id, others, i + 1, nextX, nextY, radius)

\* lines 159-219 for a particle without NaN fields: x, y, vx, vy, collided
\* and collisionX when the `if (collided)` of line 221 is reached
Collisions(p, cv, others, turb) ==
  LET width == cv.width * SCALE
      height == cv.height * SCALE
      nextX == p.x + p.vx
      nextY == p.y + p.vy
      \* lines 167-168
      vx1 == p.vx + turb[1]
      vy1 == p.vy + turb[2]
      \* lines 174-183
      wallX == nextX - p.radius <= 0 \/ nextX + p.radius >= width
      wallY == nextY - p.radius <= 0 \/ nextY + p.radius >= height
      a0 == [x |-> p.x, y |-> p.y,
             vx |-> IF wallX THEN -vx1 ELSE vx1,
             vy |-> IF wallY THEN -vy1 ELSE vy1,
             vnan |-> FALSE, pnan |-> FALSE,
             collided |-> wallX \/ wallY,
             collisionX |-> IF wallY THEN p.x
                            ELSE IF wallX THEN WallImpactX(nextX, p.radius, width)
                                 ELSE p.x]
  IN  CollideAll(a0, p.id, others, 1, nextX, nextY, p.radius)

\* speed = Math.sqrt(vx * vx + vy * vy) is 0 (line 224), so that vx / speed
\* and vy / speed (lines 226-227) are 0 / 0
ZeroSpeed(a) == ~a.vnan /\ a.vx = 0 /\ a.vy = 0

UpdateParticle(p, cv, others, turb) ==
  IF p.vnan \/ p.pnan
  THEN \* nextX and nextY are NaN: every comparison is false, x = nextX
       [p |-> [p EXCEPT !.vnan = TRUE, !.vx = 0, !.vy = 0,
                        !.pnan = TRUE, !.x = 0, !.y = 0, !.age = @ + 1],
        collided |-> FALSE, collisionX |-> 0]
  ELSE
    LET nextX == p.x + p.vx
        nextY == p.y + p.vy
        a == Collisions(p, cv, others, turb)
        zero == ZeroSpeed(a)
    IN  IF a.collided
        THEN [p |-> [p EXCEPT !.age = @ + 1, !.x = a.x, !.y = a.y, !.pnan = a.pnan,
                              \* speed = 0: vx / speed is NaN
                              !.vnan = a.vnan \/ zero,
                              !.vx = IF a.vnan \/ zero THEN 0 ELSE ScaleVelocity(a.vx),
                              !.vy = IF a.vnan \/ zero THEN 0 ELSE ScaleVelocity(a.vy),
                              !.radius = ShrinkRadius(p.radius)],
              collided |-> TRUE, collisionX |-> a.collisionX]
        ELSE [p |-> [p EXCEPT !.age = @ + 1, !.x = nextX, !.y = nextY,
                              !.vx = a.vx, !.vy = a.vy],
              collided |-> FALSE, collisionX |-> a.collisionX]

(***************************************************************************)
(* The voice allocator on its own: triggers and completions.               *)
(***************************************************************************)
NoCall == [op |-> "none"]

\* no state update is queued
NoPending == [replaced |-> FALSE, list |-> <<>>, init |-> FALSE]

\* what the voice allocator leaves alone
simVars == <<storeVars, frameVars, loadVars, histVars, place>>

\* no getRandomPosition call is in progress
NoPlace == [pc |-> "idle"]

DefaultCanvas == [width |-> 1000, height |-> 600]

\* after initializeAudio completed, the load of the last sample having failed
InitAudio ==
  /\ canvas = DefaultCanvas
  /\ audioInitialized = TRUE
  /\ loopAudioInitialized = TRUE
  /\ particles = <<>>
  /\ particlesRef = <<>>
  /\ pending = NoPending
  /\ effectsPending = FALSE
  /\ frameRequested = TRUE
  /\ otherFrames = 0
  /\ mounted = TRUE
  /\ calls = <<>>
  /\ audioContexts = 1
  /\ nextId = 1
  /\ staleTicks = 0
  /\ audioBuffers = NoteSet \ {NOTES[Len(NOTES)]}
  /\ activeSources = <<>>
  /\ sources = <<>>
  /\ lastCall = NoCall
  /\ place = NoPlace

\* the notes a trigger is explored for: the next loaded note of NOTES not
\* triggered so far, the first note again, or a note without sample
FreshNotes ==
  LET idx == { i \in 1..Len(NOTES) : NOTES[i] \in audioBuffers \ UsedNotes }
  IN  IF idx = {} THEN {}
      ELSE { NOTES[CHOOSE i \in idx : \A j \in idx : i <= j] }

NaturalEnds ==
  { s \in 1..Len(sources) : sources[s].state \in {"finished", "closed"} /\ ~sources[s].cut }

Repeats == (Len(sources) - Cardinality(UsedNotes)) + Cardinality(NaturalEnds)

AgainNotes ==
  IF Repeats < MaxRepeats
  THEN { NOTES[1] } \cap UsedNotes
  ELSE {}

AbsentNotes == NoteSet \ audioBuffers

PlayNote(note, x, radius) ==
  /\ Len(sources) < MaxSources
  /\ LET au == PlayNoteOp(Audio, loopAudioInitialized, audioBuffers, canvas.width, note, x, radius)
     IN  /\ activeSources' = au.active
         /\ sources' = au.srcs
  /\ lastCall' = IF note \in audioBuffers THEN NoCall
                 ELSE [op |-> "playNote", note |-> note]
  /\ UNCHANGED <<canvas, loopAudioInitialized, audioBuffers, simVars>>

Trigger ==
  \E note \in FreshNotes \cup AgainNotes \cup AbsentNotes :
    PlayNote(note, (canvas.width * SCALE) \div 2, INITIAL_RADIUS * SCALE)

\* the buffer of a playing source reaches its end; the samples being of
\* about one length, the source started first ends first
SourceFinishes ==
  /\ Repeats < MaxRepeats
  /\ \E s \in Sounding :
       /\ \A t \in Sounding : s <= t
       /\ sources' = [sources EXCEPT ![s].state = "finished"]
       /\ lastCall' = NoCall
  /\ UNCHANGED <<canvas, loopAudioInitialized, audioBuffers, activeSources, simVars>>

\* the ended event of a source is delivered
OnEnded ==
  \E s \in EndedPending :
    /\ LET au == OnEndedOp(Audio, s)
       IN  /\ activeSources' = au.active
           /\ sources' = au.srcs
    /\ lastCall' = NoCall
    /\ UNCHANGED <<canvas, loopAudioInitialized, audioBuffers, simVars>>

NextAudio == Trigger \/ SourceFinishes \/ OnEnded

SpecAudio == InitAudio /\ [][NextAudio]_vars


(***************************************************************************)
(* Claims about the voice allocator.                                       *)
(***************************************************************************)
SoundingOf(note) == { s \in Sounding : sources[s].note = note }

\* C1: in every reachable state at most one voice of each note is sounding
C1_AtMostOneVoicePerNote ==
  \A note \in NoteSet : Cardinality(SoundingOf(note)) <= 1

\* the voices a step cuts, and the voice created first among those sounding
CutByStep == { s \in Sounding : sources'[s].state # "playing" }
OldestSounding == CHOOSE s \in Sounding : \A t \in Sounding : s <= t

\* C2: a trigger that admits a voice while MAX_POLYPHONY voices are sounding
\* evicts exactly one voice, the one created first among them (stated for
\* the triggers of a note that has no voice, with every sounding voice
\* tracked in activeSources)
C2_EvictsEarliestCreated ==
  [][ ( /\ Len(sources') = Len(sources) + 1
        /\ Cardinality(Sounding) = MAX_POLYPHONY
        /\ { activeSources[i].src : i \in 1..Len(activeSources) } = Sounding
        /\ SoundingOf(sources'[Len(sources')].note) = {} )
        => CutByStep = {OldestSounding}
    ]_vars

\* C3: in every reachable state at most MAX_POLYPHONY voices are sounding
C3_PolyphonyBounded == Cardinality(Sounding) <= MAX_POLYPHONY

\* C7: a trigger for a note without sample in the bank changes neither the
\* active-voice set nor any voice
C7_AbsentSampleNoOp ==
  [][ (lastCall'.op = "playNote" /\ lastCall'.note \notin audioBuffers)
        => (activeSources' = activeSources /\ sources' = sources) ]_vars

\* a trigger for a note without sample arrived with MAX_POLYPHONY voices tracked
C7_Witness ==
  /\ lastCall.op = "playNote"
  /\ lastCall.note \notin audioBuffers
  /\ loopAudioInitialized
  /\ Len(activeSources) = MAX_POLYPHONY
  /\ Cardinality(Sounding) = MAX_POLYPHONY

\* the browser delivers the ended event of every source that ended
SpecAudioFair == SpecAudio /\ WF_vars(OnEnded)

\* the entries of activeSources that hold the source s
EntriesOf(s) == { i \in 1..Len(activeSources) : activeSources[i].src = s }

\* the voices whose playback reached the end of the buffer and whose onended
\* handler has not run yet
AwaitingOnEnded == { s \in 1..Len(sources) : sources[s].state = "finished" }

\* C14: a voice whose playback reached the end of its buffer is eventually
\* closed by its onended handler (a voice stays finished until its handler
\* runs, so: again and again no voice is awaiting its handler), and the
\* handler's step leaves no entry of activeSources that holds the voice and
\* makes activeSources one entry shorter if it held one
C14_FinishedVoiceRemoved ==
  /\ []<>(AwaitingOnEnded = {})
  /\ [][ \A s \in AwaitingOnEnded : sources'[s].state \in {"finished", "closed"} ]_vars
  /\ [][ \A s \in 1..Len(sources) :
           (sources[s].state = "finished" /\ sources'[s].state = "closed")
             => /\ \A i \in 1..Len(activeSources') : activeSources'[i].src # s
                /\ EntriesOf(s) # {} => Len(activeSources') = Len(activeSources) - 1 ]_vars

\* a voice played to its end, its note was not triggered again, its handler
\* ran and its note has no entry, while other voices are tracked
C14_Witness ==
  \E s \in 1..Len(sources) :
    /\ sources[s].state = "closed"
    /\ ~sources[s].cut
    /\ \A t \in 1..Len(sources) : t # s => sources[t].note # sources[s].note
    /\ ~HasKey(activeSources, sources[s].note)
    /\ Len(activeSources) >= 2

\* C15: in every reachable state every sounding voice has an entry in
\* activeSources, and the onended handler of a voice removes no entry that
\* holds another voice
C15_OnEndedRemovesOwnEntryOnly ==
  /\ [](\A s \in Sounding : EntriesOf(s) # {})
  /\ [][ \A s \in 1..Len(sources) :
           (sources[s].state \in {"stopped", "finished"} /\ sources'[s].state = "closed")
             => \A i \in 1..Len(activeSources) :
                  activeSources[i].src # s
                    => \E j \in 1..Len(activeSources') : activeSources'[j] = activeSources[i] ]_vars

(***************************************************************************)
(* The spawner.                                                            *)
(***************************************************************************)
noteNames == << "C", "Db", "D", "Eb", "E", "F", "Gb", "G", "Ab", "A", "Bb", "B" >>

midiNumberToNoteName(midiNumber) ==
  Nt(noteNames[(midiNumber % 12) + 1], (midiNumber \div 12) - 1)

IncludesMutAlways(notes, noteName) == TRUE

\* NOTES.includes(noteName)
Includes(notes, noteName) == \E i \in 1..Len(notes) : notes[i] = noteName

\* NOTES.indexOf(note)
IndexOf(notes, note) ==
  IF Includes(notes, note) THEN (CHOOSE i \in 1..Len(notes) : notes[i] = note) - 1 ELSE -1

\* Math.random() yields r / RandDen
RandDen == 4

\* the attempts of getRandomPosition
MaxAttempts == 100

\* canvas.width * 0.2
Margin(cv) == (cv.width * SCALE) \div 5

\* lines 304-305: the point sampled from the random numbers rx / RandDen and
\* ry / RandDen
SamplePoint(cv, rx, ry) ==
  [x |-> Margin(cv) + RoundDiv(rx * (cv.width * SCALE - 2 * Margin(cv)), RandDen),
   y |-> Margin(cv) + RoundDiv(ry * (cv.height * SCALE - 2 * Margin(cv)), RandDen)]

CenterPoint(cv) == [x |-> (cv.width * SCALE) \div 2, y |-> (cv.height * SCALE) \div 2]

IsValidMutAtLeast(pos, existingParticles) ==
  \A i \in 1..Len(existingParticles) :
    LET p == existingParticles[i]
        dx == p.x - pos.x
        dy == p.y - pos.y
        minDistance == INITIAL_RADIUS * 2 * SCALE
    IN  ~p.pnan /\ dx * dx + dy * dy >= minDistance * minDistance

\* lines 308-312: distance > minDistance for every existing particle (the
\* comparison is false when the distance is NaN)
IsValid(pos, existingParticles) ==
  \A i \in 1..Len(existingParticles) :
    LET p == existingParticles[i]
        dx == p.x - pos.x
        dy == p.y - pos.y
        minDistance == INITIAL_RADIUS * 2 * SCALE
    IN  ~p.pnan /\ dx * dx + dy * dy > minDistance * minDistance

\* the pairs of random numbers the attempts of getRandomPosition draw
PositionRands == { <<0, 0>>, <<2, 2>> }

SamplePoints(cv) == { SamplePoint(cv, r[1], r[2]) : r \in PositionRands }

\* getRandomPosition (lines 298-320) as a relation: the positions it can
\* return are the valid sample points and, when a sample point can fail the
\* test on each of the MaxAttempts attempts, the center
GetRandomPosition(cv, existingParticles) ==
  LET valid == { pos \in SamplePoints(cv) : IsValid(pos, existingParticles) }
  IN  IF valid = SamplePoints(cv) \/ MaxAttempts = 0 THEN valid
      ELSE valid \cup { CenterPoint(cv) }

(***************************************************************************)
(* getRandomPosition step by step: one action per iteration of its loop.   *)
(* place = [pc, canvas, existingParticles, attempts, position].            *)
(***************************************************************************)
\* an existing particle at (x, y), or with a NaN position
ExistingAt(id, x, y, pnan) ==
  [id |-> id, age |-> 1, note |-> NOTES[1], x |-> x, y |-> y, vx |-> 0, vy |-> 0,
   radius |-> INITIAL_RADIUS * SCALE, vnan |-> pnan, pnan |-> pnan]

\* the particles getRandomPosition is explored with: at the first sample
\* point of the default canvas, at 2 * INITIAL_RADIUS from it, at the center
\* of the small canvas, and one with a NaN position
ExistingChoices ==
  { ExistingAt(1, 2000, 2000, FALSE), ExistingAt(2, 5000, 2000, FALSE),
    ExistingAt(3, 1500, 300, FALSE), ExistingAt(4, 0, 0, TRUE) }

ExistingLists ==
  { <<>> } \cup { <<p>> : p \in ExistingChoices }
           \cup { l \in ExistingChoices \X ExistingChoices : l[1] # l[2] }

\* lines 302-315: one iteration of the loop
PlaceAttempt ==
  /\ place.pc = "loop"
  /\ place.attempts < MaxAttempts
  /\ \E r \in PositionRands :
       LET pos == SamplePoint(place.canvas, r[1], r[2])
       IN  place' = IF IsValid(pos, place.existingParticles)
                    THEN [place EXCEPT !.pc = "returned", !.position = pos]
                    ELSE [place EXCEPT !.attempts = @ + 1, !.position = pos]
  /\ UNCHANGED appVars

\* line 319
PlaceFallback ==
  /\ place.pc = "loop"
  /\ place.attempts >= MaxAttempts
  /\ place' = [place EXCEPT !.pc = "returned", !.position = CenterPoint(place.canvas)]
  /\ UNCHANGED appVars

\* the random numbers of one addParticle call: size, velocity x and y
SpawnRands == { [size |-> 0, vx |-> 0, vy |-> 2], [size |-> 2, vx |-> 2, vy |-> 2] }

\* lines 327-336
NewParticle(id, note, pos, rnd) ==
  [id |-> id, age |-> 0, note |-> note, x |-> pos.x, y |-> pos.y,
   vx |-> ((2 * rnd.vx - RandDen) * INITIAL_VELOCITY * SCALE) \div (2 * RandDen),
   vy |-> ((2 * rnd.vy - RandDen) * INITIAL_VELOCITY * SCALE) \div (2 * RandDen),
   radius |-> (INITIAL_RADIUS * SCALE * (7 * RandDen + 3 * rnd.size)) \div (10 * RandDen),
   vnan |-> FALSE, pnan |-> FALSE]

(***************************************************************************)
(* The particles state.  The updates queued since the last render are kept *)
(* as their composition: replaced says that a setParticles(list) is among  *)
(* them, list is that list followed by the particles appended after it     *)
(* (or the appended particles alone), init says setAudioInitialized(true)  *)
(* is among them.                                                          *)
(***************************************************************************)
\* setParticles(updatedParticles)
SetParticlesList(q, list) == [q EXCEPT !.replaced = TRUE, !.list = list]

\* setParticles(prevParticles => [...prevParticles, newParticle])
SetParticlesAppend(q, p) == [q EXCEPT !.list = Append(@, p)]

\* setAudioInitialized(true)
SetAudioInitialized(q) == [q EXCEPT !.init = TRUE]

\* the particles state after the queued updates
Reduce(state, q) == IF q.replaced THEN q.list ELSE state \o q.list

(***************************************************************************)
(* animate (lines 236-278).                                                *)
(***************************************************************************)
\* bounds of the exploration: the particles spawned, the updateParticle
\* calls a particle goes through (when it is the only one asked for, and
\* otherwise), the updateParticle calls of a particle that draw a nonzero
\* turbulence, the stale animate calls
MaxParticles == 2
MaxAge == 24
MaxPairAge == 4
MaxTurbulentAge == 1
MaxStaleTicks == 1

\* TURBULENCE_STRENGTH * noise.perlin3(..) for x and y
TurbulenceSamples == { <<0, 0>>, <<2, -2>> }

IsLiveMutAtLeast(p) == p.radius >= MIN_RADIUS * SCALE

\* line 244
IsLive(p) == p.radius > MIN_RADIUS * SCALE

Live(list) == SelectSeq(list, IsLive)

\* the list with the particle of q's identity replaced by q
ReplaceById(list, q) == [k \in 1..Len(list) |-> IF list[k].id = q.id THEN q ELSE list[k]]

\* a pass that updates the particles in place: the updateParticle call of
\* live[i] reads the list cur, in which the results of the earlier calls of
\* the pass have replaced the particles they were computed from
RECURSIVE InPlacePass(_, _, _, _, _, _)
InPlacePass(cur, live, cv, turbs, i, out) ==
  IF i > Len(live) THEN out
  ELSE LET u == UpdateParticle(live[i], cv, cur, turbs[i])
       IN  InPlacePass(ReplaceById(cur, u.p), live, cv, turbs, i + 1, Append(out, u))

UpdatesMutInPlace(list, cv, turbs) == InPlacePass(list, Live(list), cv, turbs, 1, <<>>)

\* lines 243-245: the results of updateParticle for the live particles
Updates(list, cv, turbs) ==
  [i \in 1..Len(Live(list)) |-> UpdateParticle(Live(list)[i], cv, list, turbs[i])]

\* the playNote calls of the updateParticle calls, in order
RECURSIVE PlayAll(_, _, _, _, _, _, _)
PlayAll(au, list, ups, i, initialized, buffers, width) ==
  IF i > Len(ups) THEN au
  ELSE PlayAll(IF ups[i].collided
               THEN PlayNoteOp(au, initialized, buffers, width,
                               Live(list)[i].note, ups[i].collisionX, Live(list)[i].radius)
               ELSE au,
               list, ups, i + 1, initialized, buffers, width)

\* the particles whose updateParticle called playNote, and with what
Events(list, ups) ==
  LET hit == SelectSeq([i \in 1..Len(ups) |-> i], LAMBDA i : ups[i].collided)
  IN  [k \in 1..Len(hit) |->
        [id |-> Live(list)[hit[k]].id, note |-> Live(list)[hit[k]].note,
         x |-> ups[hit[k]].collisionX, radius |-> Live(list)[hit[k]].radius]]

\* createRadialGradient throws for a NaN position: animate ends before it
\* requests the next frame
DrawThrows(updated) == \E i \in 1..Len(updated) : updated[i].pnan

\* the pending frame callbacks: [requested, others]
Frames == [requested |-> frameRequested, others |-> otherFrames]

CancelAnimationFrameMutNoop(fr) == fr

\* cancelAnimationFrame(animationFrameIdRef.current) (line 294)
CancelAnimationFrame(fr) == [fr EXCEPT !.requested = FALSE]

\* animationFrameIdRef.current = requestAnimationFrame(animate) (line 277): a
\* callback that is still pending under the id overwritten stays pending
RequestAnimationFrame(fr) ==
  [requested |-> TRUE, others |-> fr.others + (IF fr.requested THEN 1 ELSE 0)]

\* animate over the list `list`, playNote being the callback that captured
\* `initialized`, fr being the frame callbacks pending when animate is called
Tick(list, initialized, fr) ==
  LET live == Live(list) IN
  /\ \A i \in 1..Len(live) :
       live[i].age < (IF nextId = 2 /\ calls = <<>> THEN MaxAge ELSE MaxPairAge)
  /\ \E turbs \in [1..Len(live) -> TurbulenceSamples] :
       /\ \A i \in 1..Len(live) :
            (live[i].age >= MaxTurbulentAge \/ Len(live) > 1) => turbs[i] = <<0, 0>>
       /\ LET ups == Updates(list, canvas, turbs)
              updated == [i \in 1..Len(ups) |-> ups[i].p]
              au == PlayAll(Audio, list, ups, 1, initialized, audioBuffers, canvas.width)
          IN  /\ pending' = SetParticlesList(pending, updated)
              /\ activeSources' = au.active
              /\ sources' = au.srcs
              /\ LET after == IF DrawThrows(updated) THEN fr ELSE RequestAnimationFrame(fr)
                 IN  /\ frameRequested' = after.requested
                     /\ otherFrames' = after.others
              /\ mounted' = mounted
              /\ lastCall' = [op |-> "animate", events |-> Events(list, ups),
                               turbs |-> turbs]

\* particlesRef.current does not hold the list of the last setParticles yet
Stale == Live(particlesRef) # <<>> /\ (pending.replaced \/ effectsPending)

\* the animation frame callback
Animate ==
  /\ mounted
  /\ Stale => (staleTicks < MaxStaleTicks /\ Len(particlesRef) = 1)
  /\ staleTicks' = IF Stale THEN staleTicks + 1 ELSE staleTicks
  /\ \E fr \in { [Frames EXCEPT !.requested = FALSE] : b \in { TRUE } \cap { frameRequested } }
             \cup { [Frames EXCEPT !.others = @ - 1] : n \in 1..Min(otherFrames, 1) } :
       Tick(particlesRef, loopAudioInitialized, fr)
  /\ UNCHANGED <<canvas, loopAudioInitialized, audioBuffers, audioInitialized,
                 particles, particlesRef, effectsPending, loadVars, nextId, place>>

(***************************************************************************)
(* Rendering.                                                              *)
(***************************************************************************)
\* React renders App with the queued updates applied and commits
Render ==
  /\ mounted
  /\ pending # NoPending
  /\ ~effectsPending
  /\ particles' = Reduce(particles, pending)
  /\ audioInitialized' = (audioInitialized \/ pending.init)
  /\ pending' = NoPending
  /\ effectsPending' = TRUE
  /\ lastCall' = NoCall
  /\ UNCHANGED <<canvas, audioVars, particlesRef, frameVars, loadVars, histVars, place>>

\* the effects of the last render run: lines 66-68, and lines 280-296 when
\* animate changed, which it does when audioInitialized did
FlushEffects ==
  /\ mounted
  /\ effectsPending
  /\ effectsPending' = FALSE
  /\ particlesRef' = particles
  /\ IF loopAudioInitialized # audioInitialized
     THEN /\ loopAudioInitialized' = audioInitialized
          /\ Tick(particles, audioInitialized, CancelAnimationFrame(Frames))
     ELSE /\ lastCall' = NoCall
          /\ UNCHANGED <<loopAudioInitialized, activeSources, sources, pending,
                         frameVars>>
  /\ UNCHANGED <<canvas, audioBuffers, audioInitialized, particles, loadVars, histVars, place>>

(***************************************************************************)
(* addParticleForNote, addParticle and initializeAudio.                    *)
(***************************************************************************)
\* the MIDI numbers a key press is explored for: B1 and Bb3
MidiChoices == { 35, 58 }

\* the notes whose fetch or decode may fail
FailingNotes == { NOTES[2] }

SmallCanvas == [width |-> 300, height |-> 60]

CanvasChoices == { DefaultCanvas, SmallCanvas }

RemoveAt(seq, k) == [i \in 1..(Len(seq) - 1) |-> IF i < k THEN seq[i] ELSE seq[i + 1]]

\* the particles of the program
InPlay ==
  { particles[i] : i \in 1..Len(particles) }
    \cup { particlesRef[i] : i \in 1..Len(particlesRef) }
    \cup { pending.list[i] : i \in 1..Len(pending.list) }

\* lines 325-340, after `await initializeAudio()`; explored while the
\* particles are young
Spawn(q, id, note) ==
  /\ \A p \in InPlay : p.age < MaxPairAge
  /\ \E rnd \in SpawnRands, pos \in GetRandomPosition(canvas, particlesRef) :
    pending' = SetParticlesAppend(q, NewParticle(id, note, pos, rnd))

\* lines 343-353 up to the first await of initializeAudio; a key press during
\* a load is explored before the first sample of that load settled, a later
\* key press for a valid note while a particle exists
AddParticleForNote(midiNumber) ==
  LET noteName == midiNumberToNoteName(midiNumber) IN
  /\ mounted
  /\ lastCall' = [op |-> "addParticleForNote", midiNumber |-> midiNumber]
  /\ IF Includes(NOTES, noteName)
     THEN /\ nextId <= MaxParticles
          /\ nextId > 1 /\ calls = <<>> => InPlay # {}
          /\ nextId' = nextId + 1
          /\ IF audioInitialized
             THEN /\ Spawn(pending, nextId, noteName)
                  /\ UNCHANGED loadVars
             ELSE /\ \A c \in 1..Len(calls) : calls[c].index = 1
                  /\ calls' = Append(calls, [id |-> nextId, note |-> noteName, index |-> 1])
                  /\ audioContexts' = audioContexts + 1
                  /\ UNCHANGED pending
     ELSE UNCHANGED <<nextId, pending, loadVars>>
  /\ UNCHANGED <<canvas, audioVars, audioInitialized, particles, particlesRef,
                 effectsPending, frameVars, staleTicks, place>>

AfterLoadMutAlways(buffers, note, ok) == buffers \cup { note }

\* lines 98-106: audioBuffersRef.current after the load of the note settled;
\* an error is caught and logged
AfterLoad(buffers, note, ok) == IF ok THEN buffers \cup { note } ELSE buffers

\* lines 96-106: the load of NOTES[index] of the call c settles, with a
\* buffer (ok) or with an error; after the last note lines 108 and 325-340.
\* The loads of concurrent calls are explored settling in step.
LoadNote(c, ok) ==
  LET call == calls[c] IN
  /\ mounted
  /\ \A d \in 1..Len(calls) : call.index < calls[d].index \/ (call.index = calls[d].index /\ c <= d)
  /\ ~ok => NOTES[call.index] \in FailingNotes
  /\ audioBuffers' = AfterLoad(audioBuffers, NOTES[call.index], ok)
  /\ IF call.index < Len(NOTES)
     THEN /\ calls' = [calls EXCEPT ![c].index = call.index + 1]
          /\ UNCHANGED pending
     ELSE /\ calls' = RemoveAt(calls, c)
          /\ Spawn(SetAudioInitialized(pending), call.id, call.note)
  /\ lastCall' = [op |-> "loadNote", call |-> call, ok |-> ok]
  /\ UNCHANGED <<canvas, loopAudioInitialized, activeSources, sources, audioInitialized,
                 particles, particlesRef, effectsPending, frameVars, audioContexts,
                 histVars, place>>

\* the resize listener (lines 281-285), for a window resized before the first
\* key press
Resize(cv) ==
  /\ mounted
  /\ nextId = 1
  /\ cv # canvas
  /\ canvas' = cv
  /\ lastCall' = NoCall
  /\ UNCHANGED <<audioVars, storeVars, frameVars, loadVars, histVars, place>>

\* App is unmounted: the cleanup of the effect of lines 280-296 (lines
\* 292-295); React runs the effects of the last render first
Unmount ==
  /\ mounted
  /\ ~effectsPending
  /\ mounted' = FALSE
  /\ LET after == CancelAnimationFrame(Frames)
     IN  /\ frameRequested' = after.requested
         /\ otherFrames' = after.others
  /\ lastCall' = [op |-> "unmount", cancelled |-> frameRequested]
  /\ UNCHANGED <<canvas, audioVars, storeVars, loadVars, histVars, place>>

\* App is mounted: the first render is committed, its effects ran, animate
\* ran once over the empty list
Mounted ==
  /\ canvas = DefaultCanvas
  /\ audioInitialized = FALSE
  /\ loopAudioInitialized = FALSE
  /\ audioBuffers = {}
  /\ activeSources = <<>>
  /\ sources = <<>>
  /\ particles = <<>>
  /\ particlesRef = <<>>
  /\ pending = SetParticlesList(NoPending, <<>>)
  /\ effectsPending = FALSE
  /\ frameRequested = TRUE
  /\ otherFrames = 0
  /\ mounted = TRUE
  /\ calls = <<>>
  /\ audioContexts = 0
  /\ nextId = 1
  /\ staleTicks = 0
  /\ lastCall = NoCall

InitSim == Mounted /\ place = NoPlace

NextSim ==
  \/ \E midiNumber \in MidiChoices : AddParticleForNote(midiNumber)
  \/ \E c \in 1..Len(calls), ok \in BOOLEAN : LoadNote(c, ok)
  \/ Animate
  \/ Render
  \/ FlushEffects
  \/ \E cv \in CanvasChoices : Resize(cv)
  \/ Unmount

SpecSim == InitSim /\ [][NextSim]_vars

(***************************************************************************)
(* Claims about the simulation loop and the spawner.                       *)
(***************************************************************************)
\* the particle of the list with the identity id
ById(list, id) == list[CHOOSE i \in 1..Len(list) : list[i].id = id]

HasId(list, id) == \E i \in 1..Len(list) : list[i].id = id

IsTick == lastCall'.op = "animate"

\* the particles that called playNote in the tick
Collided == { lastCall'.events[k].id : k \in 1..Len(lastCall'.events) }

C5_DeadParticleRemoved ==
  [][ IsTick =>
        \A i \in 1..Len(particles) :
          ~IsLive(particles[i]) => ~HasId(pending'.list, particles[i].id) ]_vars

\* C6: in every reachable state the x position of a particle of the store
\* lies in [0, width]
C6_StaysInsideArena ==
  \A i \in 1..Len(particles) :
    particles[i].pnan \/ (0 <= particles[i].x /\ particles[i].x <= canvas.width * SCALE)

\* C10: a key press whose pitch translates to no note of NOTES changes
\* neither the store nor the queued updates nor the calls in flight, and the
\* note of every particle of the store has an index in NOTES
C10_UnknownPitchRejected ==
  /\ [](\A i \in 1..Len(particles) :
          /\ particles[i].note \in NoteSet
          /\ IndexOf(NOTES, particles[i].note) \in 0..(Len(NOTES) - 1))
  /\ [][ (lastCall'.op = "addParticleForNote"
          /\ midiNumberToNoteName(lastCall'.midiNumber) \notin NoteSet)
           => (particles' = particles /\ pending' = pending /\ calls' = calls
               /\ nextId' = nextId) ]_vars

\* a key press for B1 arrived with a particle in the store and another one
\* queued
C10_Witness ==
  /\ lastCall.op = "addParticleForNote"
  /\ midiNumberToNoteName(lastCall.midiNumber) \notin NoteSet
  /\ Len(particles) = 1
  /\ ~pending.replaced /\ Len(pending.list) = 1

\* the voices started with a pan value outside [-1, 1]
PanOutOfRange ==
  { s \in 1..Len(sources) :
      sources[s].pan.num < -sources[s].pan.den \/ sources[s].pan.num > sources[s].pan.den }

\* C11: every voice has a pan value in [-1, 1], the voices a tick starts have
\* pan = (impactX / width) * 2 - 1 for the impact x updateParticle reported,
\* and that value is -1 at impactX = 0 and +1 at impactX = width
C11_PanInRange ==
  /\ [](PanOutOfRange = {})
  /\ [](\A cv \in CanvasChoices :
          /\ PanValue(0, cv.width).num = -PanValue(0, cv.width).den
          /\ PanValue(cv.width * SCALE, cv.width).num = PanValue(cv.width * SCALE, cv.width).den)
  /\ [][ IsTick =>
           \A s \in (Len(sources) + 1)..Len(sources') :
             \E k \in 1..Len(lastCall'.events) :
               /\ sources'[s].note = lastCall'.events[k].note
               /\ sources'[s].pan = PanValue(lastCall'.events[k].x, canvas.width) ]_vars

(***************************************************************************)
(* animate over given particle lists: the store holds a list of particles  *)
(* (positions, velocities and radii drawn from the sets below), every      *)
(* sample is loaded, and the animation loop runs.                          *)
(***************************************************************************)
InputParticle(id, x, y, vx, vy, radius) ==
  [id |-> id, age |-> 0, note |-> NOTES[id], x |-> x, y |-> y, vx |-> vx, vy |-> vy,
   radius |-> radius, vnan |-> FALSE, pnan |-> FALSE]

\* one particle: at the left wall, in the middle, at the right wall; clear of
\* the top wall or not
LoneInputs ==
  { <<InputParticle(1, x, y, vx, vy, radius)>> :
      x \in {50, 5000, 9950}, y \in {3000, 1400}, vx \in {-100, 0, 100}, vy \in {0, 30},
      radius \in {1500, 500} }

\* two particles on a horizontal line, the second one live or not
PairInputs ==
  { <<InputParticle(1, 4000, 3000, vxA, 0, 500), InputParticle(2, xB, 3000, vxB, 0, rB)>> :
      vxA \in {50, 0}, xB \in {4900, 5030, 4050, 4000}, vxB \in {-50, -10, 0},
      rB \in {500, MIN_RADIUS * SCALE} }

\* a particle that reaches the left wall and another particle in one tick, and
\* a particle between two others
CrowdInputs ==
  { <<InputParticle(1, 480, 3000, -50, 0, 500), InputParticle(2, 1400, 3000, -50, 0, 500)>>,
    <<InputParticle(1, 3100, 3000, 0, 10, 500), InputParticle(2, 4000, 3000, 0, 0, 500),
      InputParticle(3, 4900, 3000, 0, 10, 500)>> }

TickInputs == LoneInputs \cup PairInputs \cup CrowdInputs

InitTick ==
  /\ canvas = DefaultCanvas
  /\ audioInitialized = TRUE
  /\ loopAudioInitialized = TRUE
  /\ audioBuffers = NoteSet
  /\ activeSources = <<>>
  /\ sources = <<>>
  /\ particlesRef \in TickInputs
  /\ particles = particlesRef
  /\ pending = NoPending
  /\ effectsPending = FALSE
  /\ frameRequested = TRUE
  /\ otherFrames = 0
  /\ mounted = TRUE
  /\ calls = <<>>
  /\ audioContexts = 1
  /\ nextId = Len(particlesRef) + 1
  /\ staleTicks = 0
  /\ lastCall = NoCall
  /\ place = NoPlace

NextTick == Animate \/ Render \/ FlushEffects

SpecTick == InitTick /\ [][NextTick]_vars

\* the list a tick read, the particles of it that the tick updated
TickInput == particlesRef'
TickLive == Live(TickInput)

\* the index in TickLive of the particle p
LiveIndex(p) == CHOOSE i \in 1..Len(TickLive) : TickLive[i].id = p.id

\* the turbulence the tick drew for the particle p
TurbulenceOf(p) == lastCall'.turbs[LiveIndex(p)]

\* the events of the tick for the particle with the identity id
EventsOf(id) == { k \in 1..Len(lastCall'.events) : lastCall'.events[k].id = id }

\* the tentative position of p is within reach of another particle of the list
TouchesParticle(p, list) ==
  \E i \in 1..Len(list) :
    LET o == list[i]
        dx == o.x - (p.x + p.vx)
        dy == o.y - (p.y + p.vy)
    IN  /\ o.id # p.id
        /\ ~o.pnan
        /\ dx * dx + dy * dy < (p.radius + o.radius) * (p.radius + o.radius)

TouchesWallX(p) ==
  p.x + p.vx - p.radius <= 0 \/ p.x + p.vx + p.radius >= canvas.width * SCALE

TouchesWallY(p) ==
  p.y + p.vy - p.radius <= 0 \/ p.y + p.vy + p.radius >= canvas.height * SCALE

\* C12: a particle that in a tick hits the left or the right wall, and neither
\* the top or bottom wall nor a particle, reports one collision whose impact x
\* is its radius (left wall) or width - radius (right wall), and its vx is
\* negated: the vx written is -(vx + turbulence) scaled by the speed increase
C12_SideWallHit ==
  [][ IsTick =>
        \A i \in 1..Len(TickLive) :
          LET p == TickLive[i]
              q == ById(pending'.list, p.id)
              tvx == p.vx + TurbulenceOf(p)[1]
              tvy == p.vy + TurbulenceOf(p)[2]
          IN  ( /\ ~p.vnan /\ ~p.pnan
                /\ TouchesWallX(p) /\ ~TouchesWallY(p) /\ ~TouchesParticle(p, TickInput) )
              => /\ Cardinality(EventsOf(p.id)) = 1
                 /\ \A k \in EventsOf(p.id) :
                      lastCall'.events[k].x =
                        (IF p.x + p.vx - p.radius <= 0 THEN p.radius
                         ELSE canvas.width * SCALE - p.radius)
                 /\ (tvx # 0 \/ tvy # 0) =>
                      /\ ~q.vnan
                      /\ q.vx = ScaleVelocity(-tvx)
                      /\ q.vy = ScaleVelocity(tvy)
                      /\ (tvx > 0 => q.vx < 0) /\ (tvx < 0 => q.vx > 0) ]_vars

\* the example: radius 150, x = 5, velocity (10, 0), width 1000, no turbulence:
\* the tick reported the impact x 150 and wrote vx = -10 * 1.02
C12_Witness ==
  /\ lastCall.op = "animate"
  /\ particlesRef = <<InputParticle(1, 50, 3000, 100, 0, 1500)>>
  /\ canvas.width = 1000
  /\ lastCall.turbs = <<(<<0, 0>>)>>
  /\ Len(lastCall.events) = 1
  /\ lastCall.events[1].x = 1500
  /\ pending.list[1].vx = -102
  /\ pending.list[1].radius = 1350

\* a and b are on a horizontal line, a left of b, and move towards each other
HeadOn(a, b) ==
  /\ ~a.vnan /\ ~a.pnan /\ ~b.vnan /\ ~b.pnan
  /\ a.y = b.y /\ a.vy = 0 /\ b.vy = 0
  /\ a.x < b.x /\ a.vx > 0 /\ b.vx < 0

\* C13: in a tick over two particles approaching head-on in which the
\* tentative position of one is closer to the current position of the other
\* than the sum of their radii, both particles report a collision and the
\* positions the tick writes are at least the sum of the radii apart
C13_HeadOnSeparated ==
  [][ IsTick =>
        \A i, j \in 1..Len(TickLive) :
          LET a == TickLive[i]
              b == TickLive[j]
              qa == ById(pending'.list, a.id)
              qb == ById(pending'.list, b.id)
          IN  ( /\ Len(TickInput) = 2
                /\ HeadOn(a, b)
                /\ (TouchesParticle(a, TickInput) \/ TouchesParticle(b, TickInput)) )
              => /\ {a.id, b.id} \subseteq Collided
                 /\ ~qa.pnan /\ ~qb.pnan
                 /\ (qb.x - qa.x) * (qb.x - qa.x) + (qb.y - qa.y) * (qb.y - qa.y)
                      >= (a.radius + b.radius) * (a.radius + b.radius) ]_vars

\* the particles of a sequence of updateParticle results
ParticlesOf(ups) == [i \in 1..Len(ups) |-> ups[i].p]

\* C16 as stated: the list a tick writes is the result of a pass in place, in
\* which every particle earlier in the pass is read as already updated
C16_InPlaceOrder ==
  [][ IsTick =>
        pending'.list = ParticlesOf(UpdatesMutInPlace(TickInput, canvas, lastCall'.turbs))
    ]_vars

\* C16 amended: the list a tick writes is the result of updateParticle for
\* each live particle against the list the tick read, in which every other
\* particle, earlier or later in the pass, has its state from before the tick;
\* the events of the tick are those of these calls
C16_SnapshotOrder ==
  [][ IsTick =>
        /\ Len(pending'.list) = Len(TickLive)
        /\ \A i \in 1..Len(TickLive) :
             LET u == UpdateParticle(TickLive[i], canvas, TickInput, lastCall'.turbs[i])
             IN  /\ pending'.list[i] = u.p
                 /\ u.collided <=> TickLive[i].id \in Collided ]_vars

\* a tick updated two particles that collided with each other (the first call
\* changed what an in-place pass would show to the second): the list written
\* is the one computed from the list read and differs from the one of a pass
\* in place
C16_Witness ==
  /\ lastCall.op = "animate"
  /\ Len(Live(particlesRef)) = 2
  /\ Len(lastCall.events) = 2
  /\ pending.replaced
  /\ pending.list = ParticlesOf(Updates(particlesRef, canvas, lastCall.turbs))
  /\ pending.list # ParticlesOf(UpdatesMutInPlace(particlesRef, canvas, lastCall.turbs))
  /\ \A i \in 1..2 : ~pending.list[i].pnan

\* C17: the particles of the list a tick read that have radius <= MIN_RADIUS
\* take no part in the tick: every live particle is written, and reports a
\* collision or not, as updateParticle does against the live particles alone
C17_DeadParticlesIgnored ==
  [][ IsTick =>
        \A i \in 1..Len(TickLive) :
          LET u == UpdateParticle(TickLive[i], canvas, TickLive, lastCall'.turbs[i])
          IN  /\ ById(pending'.list, TickLive[i].id) = u.p
              /\ u.collided <=> TickLive[i].id \in Collided ]_vars

\* the particle p of the list a tick read hits something in the tick: a wall
\* or another particle of the list
Touches(p) ==
  /\ ~p.vnan /\ ~p.pnan
  /\ (TouchesWallX(p) \/ TouchesWallY(p) \/ TouchesParticle(p, TickInput))

\* C18: in a tick a live particle that hits anything has exactly one event,
\* which carries its note and the radius it had before the tick, and is
\* written with that radius times RADIUS_DECREASE_FACTOR, applied once; a
\* particle that hits nothing has no event and keeps its radius; playNote
\* starts one voice per event when the samples are loaded
C18_OneTriggerOneShrink ==
  [][ IsTick =>
        /\ \A i \in 1..Len(TickLive) :
             LET p == TickLive[i]
                 q == ById(pending'.list, p.id)
             IN  IF Touches(p)
                 THEN /\ Cardinality(EventsOf(p.id)) = 1
                      /\ \A k \in EventsOf(p.id) :
                           /\ lastCall'.events[k].radius = p.radius
                           /\ lastCall'.events[k].note = p.note
                      /\ q.radius = (p.radius * RADIUS_DECREASE_NUM) \div RADIUS_DECREASE_DEN
                 ELSE /\ EventsOf(p.id) = {}
                      /\ q.radius = p.radius
        /\ Len(lastCall'.events) <= Len(TickLive)
        /\ ( /\ loopAudioInitialized'
             /\ \A k \in 1..Len(lastCall'.events) : lastCall'.events[k].note \in audioBuffers )
           => /\ Len(sources') = Len(sources) + Len(lastCall'.events)
              /\ \A k \in 1..Len(lastCall'.events) :
                   sources'[Len(sources) + k].gain = GainValue(lastCall'.events[k].radius) ]_vars

\* a tick over three particles, the second of which hit the two others: it has
\* one event with its radius 50 and is written with the radius 45, and the tick
\* started one voice for each of the three
C18_Witness ==
  /\ lastCall.op = "animate"
  /\ Len(particlesRef) = 3
  /\ particlesRef[2].age = 0
  /\ Len(lastCall.events) = 3
  /\ lastCall.events[2].id = 2 /\ lastCall.events[2].radius = 500
  /\ pending.list[2].radius = 450
  /\ Len(sources) = 3

\* C19: a particle that collided in a tick and whose velocity after the
\* collision handling is exactly (0, 0) is written with the velocity (0, 0),
\* not NaN, and with a position that is not NaN then and in later ticks
C19_ZeroSpeedKept ==
  [][ IsTick =>
        \A i \in 1..Len(TickLive) :
          LET p == TickLive[i]
              q == ById(pending'.list, p.id)
              a == Collisions(p, canvas, TickInput, lastCall'.turbs[i])
          IN  (~p.vnan /\ ~p.pnan /\ a.collided /\ ~a.vnan /\ a.vx = 0 /\ a.vy = 0)
              => (~q.vnan /\ q.vx = 0 /\ q.vy = 0 /\ ~q.pnan) ]_vars

\* C20: in every reachable state at most one AudioContext (with its reverb
\* node) has been created and at most one load loop over NOTES is running
C20_LoadInitiatedOnce ==
  /\ audioContexts <= 1
  /\ Len(calls) <= 1

\* the browser keeps running animation frames, React keeps rendering queued
\* updates and running the effects of its renders; nothing makes a fetch settle
SpecSimFair ==
  SpecSim /\ WF_vars(Animate) /\ WF_vars(Render) /\ WF_vars(FlushEffects)

\* C8: the particle of an addParticle call that awaits initializeAudio is
\* eventually in the store, whether or not the loads settle, unless App is
\* unmounted first
C8_SpawnDoesNotWaitForLoad ==
  \A id \in 1..MaxParticles :
    (\E c \in 1..Len(calls) : calls[c].id = id) ~> (HasId(particles, id) \/ ~mounted)

\* the step is the failure of a load
IsLoadFailure == lastCall'.op = "loadNote" /\ ~lastCall'.ok

\* C21: the failure of the load of a note leaves audioBuffers as it was and
\* the call goes on with the next note or, after the last note, queues
\* setAudioInitialized(true) and its particle; only notes whose load can fail
\* are absent from audioBuffers once the audio is initialized; while App is
\* mounted a load on its own is never stuck, whatever failed before: the load
\* of its current note can settle; a tick starts no voice for a note without buffer
C21_LoadFailureIsolated ==
  /\ [][ IsLoadFailure =>
           /\ audioBuffers' = audioBuffers
           /\ IF lastCall'.call.index < Len(NOTES)
              THEN \E c \in 1..Len(calls') :
                     calls'[c] = [lastCall'.call EXCEPT !.index = @ + 1]
              ELSE /\ pending'.init
                   /\ HasId(pending'.list, lastCall'.call.id)
                   /\ Len(calls') = Len(calls) - 1 ]_vars
  /\ [](audioInitialized => (NoteSet \ audioBuffers) \subseteq FailingNotes)
  /\ []((mounted /\ Len(calls) = 1 /\ nextId = 2) => ENABLED (\E ok \in BOOLEAN : LoadNote(1, ok)))
  /\ [][ IsTick =>
           \A s \in (Len(sources) + 1)..Len(sources') : sources'[s].note \in audioBuffers ]_vars

\* the load of EP_Bb3 failed and that of every other note succeeded, the audio
\* is initialized, and a tick in which a particle of the note EP_Bb3 collided
\* started no voice
C21_Witness ==
  /\ audioInitialized /\ loopAudioInitialized
  /\ NoteSet \ audioBuffers = { NOTES[2] }
  /\ calls = <<>>
  /\ lastCall.op = "animate"
  /\ \E k \in 1..Len(lastCall.events) : lastCall.events[k].note = NOTES[2]
  /\ sources = <<>>

\* the number of pending frame callbacks of the loop
FramesPending == otherFrames + (IF frameRequested THEN 1 ELSE 0)

\* C23: at most one frame callback of the loop is pending in every state, so
\* a display refresh runs at most one tick; this holds across the
\* re-registration of the loop after the audio initialisation (the cleanup
\* cancels the callback that is pending before animate is called again), and
\* after unmount none is pending
C23_OneFramePending ==
  /\ FramesPending <= 1
  /\ ~mounted => FramesPending = 0

\* the loop was re-registered after the audio initialisation, and then App was
\* unmounted while a frame callback was pending
C23_Witness ==
  /\ ~mounted
  /\ loopAudioInitialized
  /\ lastCall.op = "unmount"
  /\ lastCall.cancelled

\* the particles state with the queued updates applied, now and after the step
Store == Reduce(particles, pending)
StoreNext == Reduce(particles', pending')

\* C22: a particle that is in the store (the queued updates counted) with
\* radius > MIN_RADIUS is still in the store after every step, whatever list
\* the step took its snapshot from
C22_NoParticleLost ==
  [][ \A i \in 1..Len(Store) :
        IsLive(Store[i]) => HasId(StoreNext, Store[i].id) ]_vars

(***************************************************************************)
(* getRandomPosition on its own, for the canvases and particle lists       *)
(* above.                                                                  *)
(***************************************************************************)
\* a window much wider than high (resizeCanvas, lines 281-285, gives the canvas
\* the size of the window)
WideCanvas == [width |-> 1000, height |-> 150]

\* the arenas getRandomPosition is called with
PlaceCanvases == CanvasChoices \cup { WideCanvas }

InitPlace ==
  /\ Mounted
  /\ \E cv \in PlaceCanvases, existing \in ExistingLists :
       place = [pc |-> "loop", canvas |-> cv, existingParticles |-> existing,
                attempts |-> 0, position |-> CenterPoint(cv)]

NextPlace == PlaceAttempt \/ PlaceFallback

\* the loop runs to its end
SpecPlace == InitPlace /\ [][NextPlace]_vars /\ WF_vars(NextPlace)

\* the squared distance of pos to the particle p
DistanceSquared(pos, p) == (p.x - pos.x) * (p.x - pos.x) + (p.y - pos.y) * (p.y - pos.y)

\* C9: getRandomPosition returns, and what it returns is a point of the
\* sampling box at a distance > 2 * INITIAL_RADIUS from every existing
\* particle or, after 100 failed attempts, the center of the canvas
C9_PlacementReturns ==
  /\ <>(place.pc = "returned")
  /\ [](place.pc = "returned" =>
          \/ /\ place.position \in SamplePoints(place.canvas)
             /\ \A i \in 1..Len(place.existingParticles) :
                  LET p == place.existingParticles[i]
                  IN  /\ ~p.pnan
                      /\ DistanceSquared(place.position, p)
                           > (2 * INITIAL_RADIUS * SCALE) * (2 * INITIAL_RADIUS * SCALE)
          \/ /\ place.attempts = 100
             /\ place.position = [x |-> (place.canvas.width * SCALE) \div 2,
                                  y |-> (place.canvas.height * SCALE) \div 2])

\* the center was returned after 100 failed attempts among two particles
C9_Witness ==
  /\ place.pc = "returned"
  /\ place.attempts = 100
  /\ Len(place.existingParticles) = 2
  /\ \E i \in 1..2 : ~place.existingParticles[i].pnan

\* what the loop returns is what GetRandomPosition allows
PlaceAgreesWithGetRandomPosition ==
  place.pc = "returned" =>
    place.position \in GetRandomPosition(place.canvas, place.existingParticles)

\* C24: the position getRandomPosition returns lies inside the arena,
\* 0 <= x <= width and 0 <= y <= height, for every arena it is called with,
\* whether it was sampled within the margin of 20% of the width or is the
\* center
C24_PositionInsideArena ==
  place.pc = "returned" =>
    /\ 0 <= place.position.x /\ place.position.x <= place.canvas.width * SCALE
    /\ 0 <= place.position.y /\ place.position.y <= place.canvas.height * SCALE

=============================================================================
